---- MODULE Spec2Model ----
(***************************************************************************)
(* Model of the quiz session and progress-tracking engine of src/app.py    *)
(* (a Streamlit application).                                              *)
(*                                                                         *)
(* Streamlit re-executes the script on every user interaction; a button    *)
(* returns True only in the run that follows a click on it.  One action of *)
(* this model is one user interaction: the run in which the handler of the *)
(* clicked widget executes, followed by the runs that st.rerun() asks for. *)
(* The variable screen holds the widgets that the last run has left        *)
(* clickable; only those can be clicked next.                              *)
(*                                                                         *)
(* Not modelled: password hashing, quiz_start_time and the elapsed time,   *)
(* the sign-up tab, the performance analysis page and its button, question *)
(* texts.  The selectbox "Jump to question" is modelled with the value     *)
(* its index= argument gives it (the current question) until the user      *)
(* picks another entry.  An option button is clickable while answered is   *)
(* false, as its disabled= argument says.                                  *)
(*                                                                         *)
(* Three specifications share the actions:                                 *)
(*   Spec        the sessions of one user over a sound users.json          *)
(*   SpecFaults  the same, users.json in any condition at each access      *)
(*   SpecSelect  the Start Quiz handler over banks, configurations and     *)
(*               progress records                                          *)
(***************************************************************************)
EXTENDS Integers, Sequences, FiniteSets, TLC

\* ---------------------------------------------------------------- bounds
MaxSessions == 2      \* session starts (Start Quiz and Retry) in one behaviour
MaxAnswers  == 3      \* answer submissions in one behaviour

\* ------------------------------------------------------- program constants
SliderMin     == 5    \* st.slider("Number of questions", 5, max_q, 20, 5)
SliderDefault == 20
SliderStep    == 5
SliderCap     == 100  \* max_q = min(100, len(questions))

\* ------------------------------------------------------------ input data
Users   == {"u1", "u2"}          \* the accounts of users.json
LoginNames == {"u1"}             \* the usernames typed into the login form
Letters == <<"A", "B">>          \* chr(65 + i) for the options of a question
NoSelection == "None"

\* The question bank (questions.json): id, system, subject, answer.
MasterBank ==
  << [id |-> 1, system |-> "Cardio", subject |-> "Anatomy", answer |-> "A"],
     [id |-> 2, system |-> "Cardio", subject |-> "Physio",  answer |-> "B"],
     [id |-> 3, system |-> "Renal",  subject |-> "Anatomy", answer |-> "A"],
     [id |-> 4, system |-> "Renal",  subject |-> "Physio",  answer |-> "B"],
     [id |-> 5, system |-> "Cardio", subject |-> "Anatomy", answer |-> "B"],
     [id |-> 6, system |-> "Renal",  subject |-> "Anatomy", answer |-> "A"],
     [id |-> 7, system |-> "Cardio", subject |-> "Physio",  answer |-> "A"] >>

Bank(n) == SubSeq(MasterBank, 1, n)
MainBank == Bank(2)              \* the bank of the session specifications
Ids == {MasterBank[i].id : i \in DOMAIN MasterBank}
Filters == {"unused", "marked", "incorrect", "all"}
\* the selections tried in the two multiselect boxes of the home page
SystemChoices  == {{}}
SubjectChoices == {{}, {"Anatomy"}}

VARIABLES
  questions,       \* the loaded question bank
  users,           \* users.json: username -> stored progress
  logged_in, username, user_progress,      \* st.session_state
  quiz_config, quiz_state,                 \* st.session_state
  screen,          \* widgets the last run left clickable
  notice,          \* message the last run displayed
  results,         \* metrics shown by show_results in the last run
  save_result,     \* outcome of save_user_progress in the last step
  ended,           \* End Quiz has shown the results of the current session
  session_answered,\* ids answered in the current session
  n_sessions,      \* sessions started so far
  writers          \* per browser session: its progress and its pending save

vars == << questions, users, logged_in, username, user_progress,
           quiz_config, quiz_state, screen, notice, results, save_result,
           ended, session_answered, n_sessions, writers >>

\* ------------------------------------------------------------- helpers
Min(a, b) == IF a < b THEN a ELSE b
Max(a, b) == IF a > b THEN a ELSE b
Range(s) == {s[i] : i \in DOMAIN s}

RECURSIVE SetToList(_)
\* list(a_set): the elements in one order, here ascending
SetToList(S) ==
  IF S = {} THEN << >>
  ELSE LET m == CHOOSE x \in S : \A y \in S : x <= y
       IN << m >> \o SetToList(S \ {m})

\* set(a_list)
ListToSet(s) == Range(s)

RECURSIVE Filter(_, _)
\* [q for q in qs if Keep[q]] with Keep the set of kept questions
Filter(qs, Keep) ==
  IF qs = << >> THEN << >>
  ELSE IF Head(qs) \in Keep THEN << Head(qs) >> \o Filter(Tail(qs), Keep)
       ELSE Filter(Tail(qs), Keep)

RECURSIVE SumTotals(_)
SumTotals(perf) ==
  IF DOMAIN perf = {} THEN 0
  ELSE LET c == CHOOSE x \in DOMAIN perf : TRUE
       IN perf[c].total + SumTotals([d \in DOMAIN perf \ {c} |-> perf[d]])

\* ------------------------------------------------------------- records
EmptyProgress ==
  [ questions_attempted |-> {}, correct_questions |-> {},
    incorrect_questions |-> {}, marked_questions |-> {},
    performance_by_system |-> << >>, performance_by_subject |-> << >> ]

\* the "progress" entry create_user writes
NewStoredProgress ==
  [ questions_attempted |-> << >>, correct_questions |-> << >>,
    incorrect_questions |-> << >>, marked_questions |-> << >>,
    performance_by_system |-> << >>, performance_by_subject |-> << >> ]

InitialQuizConfig ==
  [ num_questions |-> 10, selected_systems |-> {}, selected_subjects |-> {},
    question_filter |-> "unused", current_quiz |-> << >>,
    quiz_started |-> FALSE ]

NewQuizState ==
  [ idx |-> 0, score |-> 0, answered |-> FALSE, selected |-> NoSelection,
    marked |-> {} ]

NoResults == [ shown |-> FALSE, score |-> 0, total |-> 0, percentage |-> 0 ]

\* ------------------------------------------------------------ the store
\* The condition of users.json when a handler opens it is an input of the
\* handler: "ok", "unreadable" (missing or malformed) or "unwritable".
StoreStatus == {"ok", "unreadable", "unwritable"}

\* load_users(): the mapping of users.json, {} when it cannot be read
load_users(status) == IF status = "unreadable" THEN << >> ELSE users

\* a checkpoint that stores the marks of the session with the progress
StoredForm_WithSessionMarks(p) ==
  [ questions_attempted |-> SetToList(p.questions_attempted),
    correct_questions   |-> SetToList(p.correct_questions),
    incorrect_questions |-> SetToList(p.incorrect_questions),
    marked_questions    |-> SetToList(p.marked_questions \cup quiz_state.marked),
    performance_by_system  |-> p.performance_by_system,
    performance_by_subject |-> p.performance_by_subject ]

\* the "progress" entry save_user_progress writes for a progress record
StoredForm(p) ==
  [ questions_attempted |-> SetToList(p.questions_attempted),
    correct_questions   |-> SetToList(p.correct_questions),
    incorrect_questions |-> SetToList(p.incorrect_questions),
    marked_questions    |-> SetToList(p.marked_questions),
    performance_by_system  |-> p.performance_by_system,
    performance_by_subject |-> p.performance_by_subject ]

\* load_user_progress(username)
load_user_progress(u, status) ==
  IF u \in DOMAIN load_users(status)
  THEN LET p == load_users(status)[u]
       IN [ questions_attempted |-> ListToSet(p.questions_attempted),
            correct_questions   |-> ListToSet(p.correct_questions),
            incorrect_questions |-> ListToSet(p.incorrect_questions),
            marked_questions    |-> ListToSet(p.marked_questions),
            performance_by_system  |-> p.performance_by_system,
            performance_by_subject |-> p.performance_by_subject ]
  ELSE EmptyProgress

\* save_user_progress(username): how the call ends.
\*   "stored"  the record of the user is replaced and users.json written
\*   "skipped" the username is not in the loaded mapping; the call returns
\*   "raised"  save_users cannot write; the exception leaves the handler
SaveOutcome(u, status) ==
  IF u \notin DOMAIN load_users(status) THEN "skipped"
  ELSE IF status = "unwritable" THEN "raised"
  ELSE "stored"

\* save_user_progress(username): users.json after the call
save_user_progress(u, p, status) ==
  IF SaveOutcome(u, status) = "stored"
  THEN [users EXCEPT ![u] = StoredForm(p)] ELSE users

\* ------------------------------------------------------- question selection
\* lines 171-172: the values st.slider(label, 5, max_q, 20, 5) can return for
\* a bank of n questions.  Streamlit widens the bounds to hold the default;
\* the slider starts at the default and moves in steps from the lower bound.
SliderValues(n) ==
  LET max_q == Min(SliderCap, n)
      lo == Min(SliderDefault, Min(SliderMin, max_q))
      hi == Max(SliderDefault, Max(lo, max_q))
  IN { v \in lo..hi : (v - lo) % SliderStep = 0 \/ v = SliderDefault }

\* the slider values tried: the lowest one
NumQChoices(n) == { v \in SliderValues(n) : v <= SliderMin }

\* filters whose "unused" keeps the attempted questions
FilteredQuestions_UnusedInverted(qs, systems, subjects, filter, progress) ==
  LET all == Range(qs)
      bySystem  == IF systems # {} THEN {q \in all : q.system \in systems}
                   ELSE all
      bySubject == IF subjects # {}
                   THEN {q \in bySystem : q.subject \in subjects}
                   ELSE bySystem
      byFilter ==
        IF filter = "marked"
        THEN {q \in bySubject : q.id \in progress.marked_questions}
        ELSE IF filter = "incorrect"
        THEN {q \in bySubject : q.id \in progress.incorrect_questions}
        ELSE IF filter = "unused"
        THEN {q \in bySubject : q.id \in progress.questions_attempted}
        ELSE bySubject
  IN Filter(qs, byFilter)

\* lines 208-227: the filters of the Start Quiz handler
FilteredQuestions(qs, systems, subjects, filter, progress) ==
  LET all == Range(qs)
      bySystem  == IF systems # {} THEN {q \in all : q.system \in systems}
                   ELSE all
      bySubject == IF subjects # {}
                   THEN {q \in bySystem : q.subject \in subjects}
                   ELSE bySystem
      byFilter ==
        IF filter = "marked"
        THEN {q \in bySubject : q.id \in progress.marked_questions}
        ELSE IF filter = "incorrect"
        THEN {q \in bySubject : q.id \in progress.incorrect_questions}
        ELSE IF filter = "unused"
        THEN {q \in bySubject : q.id \notin progress.questions_attempted}
        ELSE bySubject
  IN Filter(qs, byFilter)

\* a sample that may draw the same position twice
RandomSample_WithReplacement(population, k) ==
  { [i \in 1..k |-> population[pos[i]]] :
      pos \in [1..k -> DOMAIN population] }

\* random.sample(population, k): k items at distinct positions, in any order
RandomSample(population, k) ==
  { [i \in 1..k |-> population[pos[i]]] :
      pos \in { f \in [1..k -> DOMAIN population] :
                  \A i, j \in 1..k : i # j => f[i] # f[j] } }

\* lines 229-232: the sessions the handler can select from a filtered list
LimitQuestions(filtered, num_q) ==
  IF Len(filtered) > num_q THEN RandomSample(filtered, num_q)
  ELSE {filtered}

\* ------------------------------------------------------------ the screen
OptNames == << "opt_0", "opt_1" >>
OptionButtons(upto) == {OptNames[i] : i \in 1..upto}
ResultsButtons == {"retry", "back"}

QuizLen(cfg) == Len(cfg.current_quiz)
CurrentQuestion(cfg, qs) == cfg.current_quiz[qs.idx + 1]

\* lines 283-411: the widgets the question page leaves clickable: option
\* buttons while answered is false, Next once it is true
QuestionScreen(qs) ==
  {"home", "mark", "prev", "end", "jump"}
    \cup (IF qs.answered THEN {"next"} ELSE OptionButtons(Len(Letters)))

\* results whose total is the index the session has reached
show_results_IndexTotal(quiz_questions, qs) ==
  [ shown |-> TRUE, score |-> qs.score, total |-> qs.idx,
    percentage |-> IF qs.idx > 0
                   THEN (2000 * qs.score + qs.idx) \div (2 * qs.idx) ELSE 0 ]

\* lines 414-431: the metrics of show_results; the percentage is held in
\* tenths of a percent, as "{percentage:.1f}" displays it
Percentage(score, total) ==
  IF total > 0 THEN (2000 * score + total) \div (2 * total) ELSE 0

show_results(quiz_questions, qs) ==
  [ shown |-> TRUE, score |-> qs.score, total |-> Len(quiz_questions),
    percentage |-> Percentage(qs.score, Len(quiz_questions)) ]

\* The page a run shows.  The dispatching code is not part of src/app.py
\* (the file ends inside show_auth); the handlers select the page through
\* logged_in and quiz_started.
Page(li, cfg) ==
  IF ~li THEN "auth" ELSE IF cfg.quiz_started THEN "quiz" ELSE "home"

Finished(cfg, qs) == qs.idx >= QuizLen(cfg)

\* widgets and results of a run in which no widget fires
Screen(li, cfg, qs) ==
  IF Page(li, cfg) = "auth" THEN {"login"}
  ELSE IF Page(li, cfg) = "home" THEN {"start"}
  ELSE IF Finished(cfg, qs) THEN ResultsButtons
  ELSE QuestionScreen(qs)

Results(li, cfg, qs) ==
  IF Page(li, cfg) = "quiz" /\ Finished(cfg, qs)
  THEN show_results(cfg.current_quiz, qs) ELSE NoResults

\* a run in which no widget fires
Rerun(li, cfg, qs) ==
  /\ screen' = Screen(li, cfg, qs)
  /\ results' = Results(li, cfg, qs)

\* ------------------------------------------------------- progress updates
\* counters whose total is raised by wrong answers only
UpdatePerformance_TotalOnWrong(perf, category, isCorrect) ==
  LET old == IF category \in DOMAIN perf THEN perf[category]
             ELSE [correct |-> 0, total |-> 0]
      new == [ correct |-> old.correct + (IF isCorrect THEN 1 ELSE 0),
               total   |-> old.total + (IF isCorrect THEN 0 ELSE 1) ]
  IN [c \in DOMAIN perf \cup {category} |->
        IF c = category THEN new ELSE perf[c]]

\* lines 343-355: the counters of one category after an answer
UpdatePerformance(perf, category, isCorrect) ==
  LET old == IF category \in DOMAIN perf THEN perf[category]
             ELSE [correct |-> 0, total |-> 0]
      new == [ correct |-> old.correct + (IF isCorrect THEN 1 ELSE 0),
               total   |-> old.total + 1 ]
  IN [c \in DOMAIN perf \cup {category} |->
        IF c = category THEN new ELSE perf[c]]

\* an answer that leaves the id in the set of the other outcome
RecordAnswer_NoRemoval(p, q, letter) ==
  LET isCorrect == letter = q.answer
  IN [ questions_attempted |-> p.questions_attempted \cup {q.id},
       correct_questions   |->
         IF isCorrect THEN p.correct_questions \cup {q.id}
         ELSE p.correct_questions,
       incorrect_questions |->
         IF isCorrect THEN p.incorrect_questions
         ELSE p.incorrect_questions \cup {q.id},
       marked_questions    |-> p.marked_questions,
       performance_by_system  |->
         UpdatePerformance(p.performance_by_system, q.system, isCorrect),
       performance_by_subject |->
         UpdatePerformance(p.performance_by_subject, q.subject, isCorrect) ]

\* an answer that does not enter the id into the attempted set
RecordAnswer_NotAttempted(p, q, letter) ==
  LET isCorrect == letter = q.answer
  IN [ questions_attempted |-> p.questions_attempted,
       correct_questions   |->
         IF isCorrect THEN p.correct_questions \cup {q.id}
         ELSE p.correct_questions \ {q.id},
       incorrect_questions |->
         IF isCorrect THEN p.incorrect_questions \ {q.id}
         ELSE p.incorrect_questions \cup {q.id},
       marked_questions    |-> p.marked_questions,
       performance_by_system  |->
         UpdatePerformance(p.performance_by_system, q.system, isCorrect),
       performance_by_subject |->
         UpdatePerformance(p.performance_by_subject, q.subject, isCorrect) ]

\* an answer counted for the system and not for the subject
RecordAnswer_SubjectSkipped(p, q, letter) ==
  LET isCorrect == letter = q.answer
  IN [ questions_attempted |-> p.questions_attempted \cup {q.id},
       correct_questions   |->
         IF isCorrect THEN p.correct_questions \cup {q.id}
         ELSE p.correct_questions \ {q.id},
       incorrect_questions |->
         IF isCorrect THEN p.incorrect_questions \ {q.id}
         ELSE p.incorrect_questions \cup {q.id},
       marked_questions    |-> p.marked_questions,
       performance_by_system  |->
         UpdatePerformance(p.performance_by_system, q.system, isCorrect),
       performance_by_subject |-> p.performance_by_subject ]

\* lines 326-355: user_progress after answering question q with a letter
RecordAnswer(p, q, letter) ==
  LET isCorrect == letter = q.answer
  IN [ questions_attempted |-> p.questions_attempted \cup {q.id},
       correct_questions   |->
         IF isCorrect THEN p.correct_questions \cup {q.id}
         ELSE p.correct_questions \ {q.id},
       incorrect_questions |->
         IF isCorrect THEN p.incorrect_questions \ {q.id}
         ELSE p.incorrect_questions \cup {q.id},
       marked_questions    |-> p.marked_questions,
       performance_by_system  |->
         UpdatePerformance(p.performance_by_system, q.system, isCorrect),
       performance_by_subject |->
         UpdatePerformance(p.performance_by_subject, q.subject, isCorrect) ]

\* lines 323-330: quiz_state after the click on an option button
AnswerState(qs, q, letter) ==
  [ qs EXCEPT !.selected = letter, !.answered = TRUE,
              !.score = IF letter = q.answer THEN @ + 1 ELSE @ ]

NumAnswers == SumTotals(user_progress.performance_by_system)


\* ---------------------------------------------------------------- Init
\* a browser session outside a call of save_user_progress
IdleWriter(p) == [pc |-> "idle", progress |-> p, loaded |-> << >>]

\* no other browser session at work
NoWriters == [u \in Users |-> IdleWriter(EmptyProgress)]

\* lines 109-139: the session state of a new browser session; users.json
\* holds the accounts create_user has written
InitSession ==
  /\ users = [u \in Users |-> NewStoredProgress]
  /\ logged_in = FALSE
  /\ username = "None"
  /\ user_progress = EmptyProgress
  /\ quiz_config = InitialQuizConfig
  /\ quiz_state = NewQuizState
  /\ screen = {"login"}
  /\ notice = "none"
  /\ results = NoResults
  /\ save_result = "none"
  /\ ended = FALSE
  /\ session_answered = {}
  /\ n_sessions = 0
  /\ writers = NoWriters

Init ==
  /\ questions = MainBank
  /\ InitSession

\* the variables no handler writes
Fixed == UNCHANGED << questions, writers >>

\* ------------------------------------------------------------- actions
\* lines 553-565: the Login button, with the password of the account
Login(u, status) ==
  /\ "login" \in screen
  /\ IF u \in DOMAIN load_users(status)
     THEN /\ logged_in' = TRUE
          /\ username' = u
          /\ user_progress' = load_user_progress(u, status)
          /\ notice' = "none"
          /\ Rerun(TRUE, quiz_config, quiz_state)
     ELSE /\ notice' = "User not found"
          /\ UNCHANGED << logged_in, username, user_progress, screen, results >>
  /\ save_result' = "none"
  /\ UNCHANGED << users, quiz_config, quiz_state, ended, session_answered,
                  n_sessions >>
  /\ Fixed

\* a Start Quiz that saves the configuration before looking at the selection
StartQuiz_SavesBeforeCheck(num_q, systems, subjects, filter) ==
  /\ "start" \in screen
  /\ n_sessions < MaxSessions
  /\ LET filtered == FilteredQuestions(questions, systems, subjects, filter,
                                       user_progress)
     IN \E quiz \in LimitQuestions(filtered, num_q) :
          /\ quiz_config' =
               [ num_questions |-> num_q, selected_systems |-> systems,
                 selected_subjects |-> subjects,
                 question_filter |-> filter, current_quiz |-> quiz,
                 quiz_started |-> (quiz # << >>) ]
          /\ quiz_state' = NewQuizState
          /\ notice' = IF quiz = << >>
                       THEN "No questions match your criteria" ELSE "none"
          /\ Rerun(logged_in, quiz_config', quiz_state')
          /\ ended' = FALSE
          /\ session_answered' = {}
          /\ n_sessions' = n_sessions + 1
  /\ save_result' = "none"
  /\ UNCHANGED << users, logged_in, username, user_progress >>
  /\ Fixed

\* lines 206-258: the Start Quiz button
StartQuiz(num_q, systems, subjects, filter) ==
  /\ "start" \in screen
  /\ n_sessions < MaxSessions
  /\ LET filtered == FilteredQuestions(questions, systems, subjects, filter,
                                       user_progress)
     IN \E quiz \in LimitQuestions(filtered, num_q) :
          IF quiz = << >>
          THEN /\ notice' = "No questions match your criteria"
               /\ UNCHANGED << quiz_config, quiz_state, screen, results,
                               ended, session_answered, n_sessions >>
          ELSE /\ quiz_config' =
                    [ num_questions |-> num_q, selected_systems |-> systems,
                      selected_subjects |-> subjects,
                      question_filter |-> filter, current_quiz |-> quiz,
                      quiz_started |-> TRUE ]
               /\ quiz_state' = NewQuizState
               /\ notice' = "none"
               /\ Rerun(logged_in, quiz_config', quiz_state')
               /\ ended' = FALSE
               /\ session_answered' = {}
               /\ n_sessions' = n_sessions + 1
  /\ save_result' = "none"
  /\ UNCHANGED << users, logged_in, username, user_progress >>
  /\ Fixed

\* the run of show_quiz reaches the question page
OnQuestion ==
  /\ Page(logged_in, quiz_config) = "quiz"
  /\ ~Finished(quiz_config, quiz_state)

\* the run of show_quiz reaches show_results at line 273
OnResults ==
  /\ Page(logged_in, quiz_config) = "quiz"
  /\ Finished(quiz_config, quiz_state)

\* lines 283-286: the Home button of the question page
ClickHome(status) ==
  /\ "home" \in screen
  /\ OnQuestion
  /\ save_result' = SaveOutcome(username, status)
  /\ IF SaveOutcome(username, status) = "raised"
     THEN /\ notice' = "exception"
          /\ screen' = {"home"}
          /\ results' = NoResults
          /\ UNCHANGED << users, quiz_config >>
     ELSE /\ users' = save_user_progress(username, user_progress, status)
          /\ quiz_config' = [quiz_config EXCEPT !.quiz_started = FALSE]
          /\ notice' = "none"
          /\ Rerun(logged_in, quiz_config', quiz_state)
  /\ UNCHANGED << logged_in, username, user_progress, quiz_state, ended,
                  session_answered, n_sessions >>
  /\ Fixed

\* a mark button that only ever adds the id
ToggleMark_AddOnly(marked, q_id) == marked \cup {q_id}

\* lines 293-296: the id leaves the marked set when it is in it, joins it
\* otherwise
ToggleMark(marked, q_id) ==
  IF q_id \in marked THEN marked \ {q_id} ELSE marked \cup {q_id}

\* lines 289-297: the Mark for Review / Unmark button
ClickMark ==
  /\ "mark" \in screen
  /\ OnQuestion
  /\ LET q_id == CurrentQuestion(quiz_config, quiz_state).id
     IN quiz_state' =
          [quiz_state EXCEPT !.marked = ToggleMark(@, q_id)]
  /\ notice' = "none"
  /\ save_result' = "none"
  /\ Rerun(logged_in, quiz_config, quiz_state')
  /\ UNCHANGED << users, logged_in, username, user_progress, quiz_config,
                  ended, session_answered, n_sessions >>
  /\ Fixed

\* lines 313-355: the button of option i, enabled while answered is false;
\* the run does not end in st.rerun() and goes on to draw the rest of the page
ClickOption(i) ==
  /\ OptNames[i] \in screen
  /\ OnQuestion
  /\ NumAnswers < MaxAnswers
  /\ LET q == CurrentQuestion(quiz_config, quiz_state)
     IN /\ quiz_state' = AnswerState(quiz_state, q, Letters[i])
        /\ user_progress' = RecordAnswer(user_progress, q, Letters[i])
        /\ session_answered' = session_answered \cup {q.id}
  /\ screen' = QuestionScreen(quiz_state')
  /\ results' = NoResults
  /\ notice' = "none"
  /\ save_result' = "none"
  /\ UNCHANGED << users, logged_in, username, quiz_config, ended, n_sessions >>
  /\ Fixed

\* a Previous button without the test of the index
ClickPrev_Unguarded ==
  /\ "prev" \in screen
  /\ OnQuestion
  /\ quiz_state' = [quiz_state EXCEPT !.idx = @ - 1, !.answered = FALSE,
                                      !.selected = NoSelection]
  /\ notice' = "none"
  /\ save_result' = "none"
  /\ Rerun(logged_in, quiz_config, quiz_state')
  /\ UNCHANGED << users, logged_in, username, user_progress, quiz_config,
                  ended, session_answered, n_sessions >>
  /\ Fixed

\* a Previous button that resets the answer also on the first question
ClickPrev_ResetsAtFirst ==
  /\ "prev" \in screen
  /\ OnQuestion
  /\ quiz_state' =
       [quiz_state EXCEPT !.idx = IF @ > 0 THEN @ - 1 ELSE @,
                          !.answered = FALSE, !.selected = NoSelection]
  /\ notice' = "none"
  /\ save_result' = "none"
  /\ Rerun(logged_in, quiz_config, quiz_state')
  /\ UNCHANGED << users, logged_in, username, user_progress, quiz_config,
                  ended, session_answered, n_sessions >>
  /\ Fixed

\* lines 376-381: the Previous button
ClickPrev ==
  /\ "prev" \in screen
  /\ OnQuestion
  /\ quiz_state' =
       IF quiz_state.idx > 0
       THEN [quiz_state EXCEPT !.idx = @ - 1, !.answered = FALSE,
                               !.selected = NoSelection]
       ELSE quiz_state
  /\ notice' = "none"
  /\ save_result' = "none"
  /\ Rerun(logged_in, quiz_config, quiz_state')
  /\ UNCHANGED << users, logged_in, username, user_progress, quiz_config,
                  ended, session_answered, n_sessions >>
  /\ Fixed

\* a Next button that moves on and leaves the answer of the previous question
\* in the quiz state
ClickNext_KeepsAnswer ==
  /\ "next" \in screen
  /\ OnQuestion
  /\ quiz_state' =
       IF quiz_state.answered
       THEN [quiz_state EXCEPT !.idx = @ + 1]
       ELSE quiz_state
  /\ notice' = "none"
  /\ save_result' = "none"
  /\ Rerun(logged_in, quiz_config, quiz_state')
  /\ UNCHANGED << users, logged_in, username, user_progress, quiz_config,
                  ended, session_answered, n_sessions >>
  /\ Fixed

\* lines 383-391: the Next button, rendered enabled when answered
ClickNext ==
  /\ "next" \in screen
  /\ OnQuestion
  /\ quiz_state' =
       IF quiz_state.answered
       THEN [quiz_state EXCEPT !.idx = @ + 1, !.answered = FALSE,
                               !.selected = NoSelection]
       ELSE quiz_state
  /\ notice' = "none"
  /\ save_result' = "none"
  /\ Rerun(logged_in, quiz_config, quiz_state')
  /\ UNCHANGED << users, logged_in, username, user_progress, quiz_config,
                  ended, session_answered, n_sessions >>
  /\ Fixed

\* lines 393-397: the End Quiz button; the results are drawn below the
\* question page of the same run, the jump box is not reached
ClickEnd(status) ==
  /\ "end" \in screen
  /\ OnQuestion
  /\ save_result' = SaveOutcome(username, status)
  /\ IF SaveOutcome(username, status) = "raised"
     THEN /\ notice' = "exception"
          /\ screen' = QuestionScreen(quiz_state) \ {"jump"}
          /\ results' = NoResults
          /\ UNCHANGED << users, ended >>
     ELSE /\ users' = save_user_progress(username, user_progress, status)
          /\ notice' = "none"
          /\ screen' = (QuestionScreen(quiz_state) \ {"jump"})
                         \cup ResultsButtons
          /\ results' = show_results(quiz_config.current_quiz, quiz_state)
          /\ ended' = TRUE
  /\ UNCHANGED << logged_in, username, user_progress, quiz_config, quiz_state,
                  session_answered, n_sessions >>
  /\ Fixed

\* a jump that takes the number shown in the box for the index
Jump_NumberAsIndex(selected_q) ==
  /\ "jump" \in screen
  /\ OnQuestion
  /\ selected_q \in 1..QuizLen(quiz_config)
  /\ selected_q - 1 # quiz_state.idx
  /\ quiz_state' = [quiz_state EXCEPT !.idx = selected_q,
                                      !.answered = FALSE,
                                      !.selected = NoSelection]
  /\ notice' = "none"
  /\ save_result' = "none"
  /\ Rerun(logged_in, quiz_config, quiz_state')
  /\ UNCHANGED << users, logged_in, username, user_progress, quiz_config,
                  ended, session_answered, n_sessions >>
  /\ Fixed

\* lines 399-411: another entry picked in the Jump to question box
Jump(selected_q) ==
  /\ "jump" \in screen
  /\ OnQuestion
  /\ selected_q \in 1..QuizLen(quiz_config)
  /\ selected_q - 1 # quiz_state.idx
  /\ quiz_state' = [quiz_state EXCEPT !.idx = selected_q - 1,
                                      !.answered = FALSE,
                                      !.selected = NoSelection]
  /\ notice' = "none"
  /\ save_result' = "none"
  /\ Rerun(logged_in, quiz_config, quiz_state')
  /\ UNCHANGED << users, logged_in, username, user_progress, quiz_config,
                  ended, session_answered, n_sessions >>
  /\ Fixed

\* lines 453-462: the Retry Same Questions button.  Its handler runs when the
\* run reaches show_results; on the screen End Quiz has left, the run shows
\* the question page again and the click has no handler.
ClickRetry ==
  /\ "retry" \in screen
  /\ IF OnResults
     THEN /\ n_sessions < MaxSessions
          /\ quiz_state' = NewQuizState
          /\ ended' = FALSE
          /\ session_answered' = {}
          /\ n_sessions' = n_sessions + 1
     ELSE UNCHANGED << quiz_state, ended, session_answered, n_sessions >>
  /\ notice' = "none"
  /\ save_result' = "none"
  /\ Rerun(logged_in, quiz_config, quiz_state')
  /\ UNCHANGED << users, logged_in, username, user_progress, quiz_config >>
  /\ Fixed

\* lines 464-468: the Back to Home button of the results
ClickBack(status) ==
  /\ "back" \in screen
  /\ IF OnResults
     THEN /\ save_result' = SaveOutcome(username, status)
          /\ IF SaveOutcome(username, status) = "raised"
             THEN /\ notice' = "exception"
                  /\ screen' = ResultsButtons
                  /\ results' = show_results(quiz_config.current_quiz,
                                             quiz_state)
                  /\ UNCHANGED << users, quiz_config >>
             ELSE /\ users' = save_user_progress(username, user_progress, status)
                  /\ quiz_config' =
                       [quiz_config EXCEPT !.quiz_started = FALSE]
                  /\ notice' = "none"
                  /\ Rerun(logged_in, quiz_config', quiz_state)
     ELSE /\ save_result' = "none"
          /\ notice' = "none"
          /\ Rerun(logged_in, quiz_config, quiz_state)
          /\ UNCHANGED << users, quiz_config >>
  /\ UNCHANGED << logged_in, username, user_progress, quiz_state, ended,
                  session_answered, n_sessions >>
  /\ Fixed

\* one user interaction, with the store in one of the conditions of `store`
NextWith(store) ==
  \/ \E u \in LoginNames, status \in store : Login(u, status)
  \/ \E num_q \in NumQChoices(Len(questions)), systems \in SystemChoices,
        subjects \in SubjectChoices, filter \in Filters :
          StartQuiz(num_q, systems, subjects, filter)
  \/ \E status \in store : ClickHome(status)
  \/ ClickMark
  \/ \E i \in DOMAIN Letters : ClickOption(i)
  \/ ClickPrev
  \/ ClickNext
  \/ \E status \in store : ClickEnd(status)
  \/ \E selected_q \in 1..QuizLen(quiz_config) : Jump(selected_q)
  \/ ClickRetry
  \/ \E status \in store : ClickBack(status)

\* the sessions of a user over a sound store
Next == NextWith({"ok"})
Spec == Init /\ [][Next]_vars

\* the same with users.json in any condition when a handler opens it
NextFaults == NextWith(StoreStatus)
SpecFaults == Init /\ [][NextFaults]_vars


\* ------------------------------------------- the selection on its own
\* The Start Quiz handler applied to banks, configurations and progress
\* records: the user is logged in and on the home page, with the progress
\* that answering some questions once has left and that is stored.
WrongLetter(q) == CHOOSE l \in Range(Letters) : l # q.answer

RECURSIVE AnswerEach(_, _, _)
\* the progress after answering the questions qs in turn, wrongly those of wrong
AnswerEach(p, qs, wrong) ==
  IF qs = << >> THEN p
  ELSE AnswerEach(
         RecordAnswer(p, Head(qs),
                      IF Head(qs).id \in wrong THEN WrongLetter(Head(qs))
                      ELSE Head(qs).answer),
         Tail(qs), wrong)

SelectBanks == {Bank(2), Bank(5), Bank(6)}
SelectProgress(bank) ==
  { AnswerEach(EmptyProgress, Filter(bank, done), wrong) :
      done \in SUBSET {q \in Range(bank) : q.id \in {1, 6}},
      wrong \in SUBSET {1, 6} }
AllSystems  == {MasterBank[i].system  : i \in DOMAIN MasterBank}
AllSubjects == {MasterBank[i].subject : i \in DOMAIN MasterBank}

InitSelect ==
  /\ questions \in SelectBanks
  /\ user_progress \in SelectProgress(questions)
  /\ username \in LoginNames
  /\ users = [u \in Users |-> IF u = username THEN StoredForm(user_progress)
                              ELSE NewStoredProgress]
  /\ logged_in = TRUE
  /\ quiz_config = InitialQuizConfig
  /\ quiz_state = NewQuizState
  /\ screen = Screen(TRUE, InitialQuizConfig, NewQuizState)
  /\ notice = "none"
  /\ results = NoResults
  /\ save_result = "none"
  /\ ended = FALSE
  /\ session_answered = {}
  /\ n_sessions = 0
  /\ writers = NoWriters

NextSelect ==
  \/ \E num_q \in NumQChoices(Len(questions)) \cup {SliderDefault},
        systems \in SUBSET AllSystems, subjects \in SUBSET AllSubjects,
        filter \in Filters :
          StartQuiz(num_q, systems, subjects, filter)
  \/ ClickEnd("ok")

SpecSelect == InitSelect /\ [][NextSelect]_vars


\* ------------------------------------- two browser sessions and one store
\* Streamlit runs the script of every browser session in a thread of its
\* own, and save_user_progress is a load of the whole of users.json (line 58)
\* followed by a write of the whole of it (line 70, save_users lines 26-28).

\* the browser session of the other specifications takes no step
NoClick ==
  UNCHANGED << questions, logged_in, username, user_progress, quiz_config,
               quiz_state, screen, notice, results, save_result, ended,
               session_answered, n_sessions >>

RECURSIVE WriterAnswersOf(_, _)
\* the answers counted in the progress of the sessions of the users us
WriterAnswersOf(w, us) ==
  IF us = {} THEN 0
  ELSE LET u == CHOOSE x \in us : TRUE
       IN SumTotals(w[u].progress.performance_by_system)
            + WriterAnswersOf(w, us \ {u})

\* lines 326-355: the session of user u answers question i with a letter
WriterAnswer(u, i, letter) ==
  /\ WriterAnswersOf(writers, Users) < MaxAnswers
  /\ writers' = [writers EXCEPT ![u].progress =
                   RecordAnswer(@, questions[i], letter)]
  /\ UNCHANGED users
  /\ NoClick

\* line 58: the checkpoint of user u reads users.json
SaveLoad(u) ==
  /\ writers[u].pc = "idle"
  /\ writers' = [writers EXCEPT ![u].pc = "loaded",
                                ![u].loaded = load_users("ok")]
  /\ UNCHANGED users
  /\ NoClick

\* lines 59-70 and 26-28: the checkpoint of user u puts its progress into
\* what it has read and writes that as the new users.json
SaveWrite(u) ==
  /\ writers[u].pc = "loaded"
  /\ users' = IF u \in DOMAIN writers[u].loaded
              THEN [writers[u].loaded EXCEPT
                      ![u] = StoredForm(writers[u].progress)]
              ELSE users
  /\ writers' = [writers EXCEPT ![u] = IdleWriter(@.progress)]
  /\ NoClick

InitStore ==
  /\ questions = MainBank
  /\ InitSession

NextStore ==
  \/ \E u \in Users, i \in DOMAIN questions, letter \in Range(Letters) :
        WriterAnswer(u, i, letter)
  \/ \E u \in Users : SaveLoad(u)
  \/ \E u \in Users : SaveWrite(u)

SpecStore == InitStore /\ [][NextStore]_vars


\* =============================================================== claims
Attempted == user_progress.questions_attempted
Correct   == user_progress.correct_questions
Incorrect == user_progress.incorrect_questions
BySystem  == user_progress.performance_by_system
BySubject == user_progress.performance_by_subject

\* the progress users.json holds for the logged-in user
StoredProgress == load_user_progress(username, "ok")
InSync == StoredProgress = user_progress

\* C1: correct and incorrect have no id in common and both are subsets of
\* attempted, after any sequence of operations over any number of sessions.
C1_SetsConsistent ==
  /\ Correct \cap Incorrect = {}
  /\ Correct \subseteq Attempted
  /\ Incorrect \subseteq Attempted

\* a question answered correctly before is now in incorrect, in a later session
C1_Witness ==
  /\ n_sessions = 2
  /\ 1 \in Incorrect
  /\ "Anatomy" \in DOMAIN BySubject
  /\ BySubject["Anatomy"].correct >= 1

\* C2: in every state of a session score <= index_reached <= total, with total
\* the number N of questions of the session; in particular the score never
\* exceeds N and the index never exceeds N.
C2_ScoreWithinTotal ==
  quiz_config.quiz_started =>
    /\ quiz_state.score <= QuizLen(quiz_config)
    /\ quiz_state.idx <= QuizLen(quiz_config)

\* C3: within one session a question is scored at most once: a step of the
\* session on a question already answered in it changes neither the score nor
\* the category counters.
C3_ScoredOnce ==
  [][ ( /\ OnQuestion
        /\ n_sessions' = n_sessions
        /\ CurrentQuestion(quiz_config, quiz_state).id \in session_answered )
      => /\ quiz_state'.score = quiz_state.score
         /\ BySystem' = BySystem
         /\ BySubject' = BySubject ]_vars

\* C4: when an id leaves correct (the question is answered wrongly again) it
\* enters incorrect, the total counters of its system and subject rise by 1
\* and their correct counters fall by 1.
C4_CountersFollowCorrect ==
  [][ \A i \in DOMAIN questions :
        LET q == questions[i]
        IN (q.id \in Correct /\ q.id \notin Correct')
           => /\ q.id \in Incorrect'
              /\ BySystem'[q.system].total = BySystem[q.system].total + 1
              /\ BySubject'[q.subject].total = BySubject[q.subject].total + 1
              /\ BySystem'[q.system].correct = BySystem[q.system].correct - 1
              /\ BySubject'[q.subject].correct
                   = BySubject[q.subject].correct - 1 ]_vars

\* C5: for every system and every subject the correct counter is at most the
\* total counter.
C5_CorrectAtMostTotal ==
  /\ \A c \in DOMAIN BySystem : BySystem[c].correct <= BySystem[c].total
  /\ \A c \in DOMAIN BySubject : BySubject[c].correct <= BySubject[c].total

\* a category with right and wrong answers, over two sessions
C5_Witness ==
  /\ n_sessions = 2
  /\ "Cardio" \in DOMAIN BySystem
  /\ BySystem["Cardio"].correct >= 1
  /\ BySystem["Cardio"].total = 3
  /\ BySystem["Cardio"].correct < BySystem["Cardio"].total

\* C6: once End Quiz has shown the results, no answer and no navigation of
\* that session takes effect until a new session or a retry starts.
C6_FinishedIsTerminal ==
  [][ (ended /\ ended')
      => /\ quiz_state'.idx = quiz_state.idx
         /\ quiz_state'.score = quiz_state.score
         /\ quiz_state'.answered = quiz_state.answered
         /\ quiz_state'.selected = quiz_state.selected
         /\ user_progress' = user_progress ]_vars

\* C7: the results show the score of the session, total = N (the length of
\* the session, not the index reached) and percentage = score / total * 100
\* (to one decimal), 0 when N = 0; score 2 of 10 questions shows 20.0.
C7_ResultsReport ==
  /\ results.shown =>
       /\ results.score = quiz_state.score
       /\ results.total = QuizLen(quiz_config)
       /\ results.total > 0
       /\ 2 * results.percentage * results.total
            <= 2000 * results.score + results.total
       /\ 2 * results.percentage * results.total
            > 2000 * results.score - results.total
  /\ LET ten == [i \in 1..10 |-> MasterBank[1]]
     IN show_results(ten, [NewQuizState EXCEPT !.idx = 2, !.score = 2])
          = [shown |-> TRUE, score |-> 2, total |-> 10, percentage |-> 200]
  /\ show_results(<< >>, NewQuizState).percentage = 0

\* End Quiz at index 1 of a session of 2 questions, with 1 correct answer
C7_Witness ==
  /\ results.shown
  /\ ended
  /\ quiz_state.idx = 1
  /\ results = [shown |-> TRUE, score |-> 1, total |-> 2, percentage |-> 500]

\* C8: every checkpoint event (End Quiz, leaving the quiz to Home, leaving the
\* results to Home) leaves the stored progress of the user equal to the
\* progress in memory.
C8_CheckpointWritten ==
  [][ ( \/ quiz_config.quiz_started /\ ~quiz_config'.quiz_started
        \/ ~ended /\ ended' )
      => InSync' ]_vars

\* C9: a progress write that fails is reported: when save_user_progress has
\* run and the progress is not stored, the call has raised.
C9_FailureReported ==
  (save_result # "none" /\ ~InSync) => save_result = "raised"

\* C10: the selected session has no id twice and at most num_questions
\* questions; it has min(num_questions, filtered count) questions, all of the
\* filtered list, and is the filtered list when that is not longer than
\* num_questions.
C10_Selection ==
  quiz_config.quiz_started =>
    LET quiz == quiz_config.current_quiz
        num_q == quiz_config.num_questions
        filtered == FilteredQuestions(questions, quiz_config.selected_systems,
                      quiz_config.selected_subjects,
                      quiz_config.question_filter, user_progress)
    IN /\ \A i, j \in DOMAIN quiz : i # j => quiz[i].id # quiz[j].id
       /\ Len(quiz) <= num_q
       /\ Len(quiz) = Min(num_q, Len(filtered))
       /\ Range(quiz) \subseteq Range(filtered)
       /\ Len(filtered) <= num_q => quiz = filtered

\* a sample of 5 of the 6 questions of a bank, not in bank order
C10_Witness ==
  /\ quiz_config.quiz_started
  /\ Len(questions) = 6
  /\ quiz_config.num_questions = 5
  /\ Len(quiz_config.current_quiz) = 5
  /\ quiz_config.current_quiz[1].id = 6
  /\ quiz_config.current_quiz[5].id = 2

\* Scenario A: a bank of 5, filter all, 5 questions: exactly the 5 questions
C10_WitnessAll ==
  /\ quiz_config.quiz_started
  /\ Len(questions) = 5
  /\ quiz_config.question_filter = "all"
  /\ quiz_config.num_questions = 5
  /\ quiz_config.current_quiz = questions


\* C11: every question of a selected session is of the bank and satisfies
\* the configuration: its system is selected when systems are selected, its
\* subject likewise, and its id is not attempted (unused), marked (marked),
\* incorrect (incorrect) or unrestricted (all).
C11_SessionMatchesConfig ==
  quiz_config.quiz_started =>
    \A i \in DOMAIN quiz_config.current_quiz :
      LET q == quiz_config.current_quiz[i]
          filter == quiz_config.question_filter
      IN /\ q \in Range(questions)
         /\ quiz_config.selected_systems # {}
              => q.system \in quiz_config.selected_systems
         /\ quiz_config.selected_subjects # {}
              => q.subject \in quiz_config.selected_subjects
         /\ filter = "unused" => q.id \notin Attempted
         /\ filter = "marked" => q.id \in user_progress.marked_questions
         /\ filter = "incorrect" => q.id \in Incorrect
         /\ filter \in Filters

\* unused questions of one system and one subject, with question 6 attempted
C11_Witness ==
  /\ quiz_config.quiz_started
  /\ Len(questions) = 6
  /\ 6 \in Attempted
  /\ quiz_config.question_filter = "unused"
  /\ quiz_config.selected_systems = {"Renal"}
  /\ quiz_config.selected_subjects = {"Anatomy"}
  /\ Len(quiz_config.current_quiz) = 1
  /\ quiz_config.current_quiz[1].id = 3

\* a session of the incorrect questions
C11_WitnessIncorrect ==
  /\ quiz_config.quiz_started
  /\ quiz_config.question_filter = "incorrect"
  /\ quiz_config.current_quiz # << >>


\* C12: a Start Quiz whose filters leave no question reports that no question
\* matches and starts nothing: the quiz configuration, the quiz state and the
\* progress, in memory and stored, are as before; and no started session has
\* an empty question list.
C12_NoMatchStartsNothing ==
  [][ /\ "start" \in screen =>
           \A num_q \in NumQChoices(Len(questions)),
              systems \in SystemChoices, subjects \in SubjectChoices,
              filter \in Filters :
           ( /\ FilteredQuestions(questions, systems, subjects, filter,
                                  user_progress) = << >>
             /\ StartQuiz(num_q, systems, subjects, filter) )
           => /\ notice' = "No questions match your criteria"
              /\ UNCHANGED << quiz_config, quiz_state, user_progress, users >>
      /\ notice' = "No questions match your criteria"
           => UNCHANGED << quiz_config, quiz_state, user_progress, users >>
      /\ quiz_config'.quiz_started => quiz_config'.current_quiz # << >>
    ]_vars

\* no question matches once both questions of the bank are attempted and
\* correct: neither unused nor incorrect nor marked ones are left
C12_Witness ==
  /\ notice = "No questions match your criteria"
  /\ Attempted = ListToSet([i \in DOMAIN questions |-> questions[i].id])
  /\ Incorrect = {}
  /\ ~quiz_config.quiz_started
  /\ quiz_state.idx > 0


\* C13: the mark button is on the question page whether or not the question
\* is answered; a click changes the membership of the current question's id
\* in the marked set of the session and nothing else of the quiz state, the
\* configuration or the progress; a second click would restore the set.
C13_ToggleMark ==
  [][ /\ (OnQuestion /\ "prev" \in screen) => "mark" \in screen
      /\ ClickMark =>
           LET q_id == CurrentQuestion(quiz_config, quiz_state).id
               old  == quiz_state.marked
               new  == quiz_state'.marked
           IN /\ (old \ new) \cup (new \ old) = {q_id}
              /\ ToggleMark(new, q_id) = old
              /\ quiz_state' = [quiz_state EXCEPT !.marked = new]
              /\ UNCHANGED << quiz_config, user_progress, users >>
    ]_vars

\* an answered question that is marked, its mark button still on the page
C13_Witness ==
  /\ OnQuestion
  /\ quiz_state.answered
  /\ CurrentQuestion(quiz_config, quiz_state).id \in quiz_state.marked
  /\ "mark" \in screen

\* the first question marked, then the second marked and unmarked again
C13_WitnessElsewhere ==
  /\ OnQuestion
  /\ quiz_state.idx = 1
  /\ quiz_state.marked = {quiz_config.current_quiz[1].id}


\* C14: Next is clickable only on an answered question, so that on an
\* unanswered one it changes nothing; a click leaves the index one higher once
\* the reruns it triggers are over, answered false and no option selected,
\* with score, marks, configuration and progress as before; the results are
\* shown exactly when the new index is the number of questions.
C14_Advance ==
  [][ /\ "next" \in screen => (OnQuestion => quiz_state.answered)
      /\ ClickNext =>
           /\ quiz_state.answered
           /\ quiz_state' = [quiz_state EXCEPT !.idx = quiz_state.idx + 1,
                                               !.answered = FALSE,
                                               !.selected = NoSelection]
           /\ UNCHANGED << quiz_config, user_progress, users >>
           /\ Finished(quiz_config, quiz_state')
                <=> quiz_state'.idx = QuizLen(quiz_config)
           /\ results'.shown <=> quiz_state'.idx = QuizLen(quiz_config)
           /\ quiz_state'.idx < QuizLen(quiz_config)
                => screen' = QuestionScreen(quiz_state')
    ]_vars

\* two rounds of answer and Next from the first question of a session of two
\* end on the results
C14_Witness ==
  /\ quiz_config.quiz_started
  /\ QuizLen(quiz_config) = 2
  /\ quiz_state.idx = 2
  /\ ~quiz_state.answered
  /\ quiz_state.selected = NoSelection
  /\ results.shown
  /\ ~ended
  /\ n_sessions = 1
  /\ NumAnswers = 2


\* C15: Previous on the first question changes nothing of the quiz state, the
\* configuration or the progress; on a later question it leaves the index one
\* lower, answered false and no option selected, with score, marks,
\* configuration and progress as before.
C15_Retreat ==
  [][ ClickPrev =>
        /\ quiz_state' =
             IF quiz_state.idx = 0 THEN quiz_state
             ELSE [quiz_state EXCEPT !.idx = quiz_state.idx - 1,
                                     !.answered = FALSE,
                                     !.selected = NoSelection]
        /\ UNCHANGED << quiz_config, user_progress, users, session_answered >>
        /\ screen' = QuestionScreen(quiz_state')
        /\ ~results'.shown
    ]_vars

\* back on the first question from the second, the first one's answer
\* counted in the score and the question open again
C15_Witness ==
  /\ OnQuestion
  /\ QuizLen(quiz_config) = 2
  /\ quiz_state.idx = 0
  /\ ~quiz_state.answered
  /\ quiz_state.selected = NoSelection
  /\ quiz_state.score = 1
  /\ session_answered = {quiz_config.current_quiz[1].id}
  /\ n_sessions = 1

\* Previous clicked on the first question after End Quiz: the results
\* leave the screen, the quiz state is as it was
C15_WitnessRejected ==
  /\ OnQuestion
  /\ quiz_state.idx = 0
  /\ quiz_state.answered
  /\ ended
  /\ screen = QuestionScreen(quiz_state)
  /\ session_answered = {quiz_config.current_quiz[1].id}


\* the counter `field` of a category, 0 while the category has no entry
Count(perf, category, field) ==
  IF category \in DOMAIN perf THEN perf[category][field] ELSE 0

\* C16: a click on an option of an unanswered question stores the letter and
\* sets answered; the id is attempted and in exactly one of the correct and
\* incorrect sets, the one the letter decides; the total of the question's
\* system and of its subject is one higher and their correct counters are one
\* higher exactly on the correct letter; no other id and no other category
\* changes, nor do index, marks, configuration or the stored progress.
C16_SubmitAnswer ==
  [][ \A i \in DOMAIN Letters :
        ClickOption(i) =>
          LET q      == CurrentQuestion(quiz_config, quiz_state)
              letter == Letters[i]
              hit    == IF letter = q.answer THEN 1 ELSE 0
              p      == user_progress
              pn     == user_progress'
          IN /\ ~quiz_state.answered
             /\ quiz_state'.selected = letter
             /\ quiz_state'.answered
             /\ quiz_state'.idx = quiz_state.idx
             /\ quiz_state'.marked = quiz_state.marked
             /\ quiz_state'.score = quiz_state.score + hit
             /\ q.id \in pn.questions_attempted
             /\ q.id \in pn.correct_questions <=> hit = 1
             /\ q.id \in pn.incorrect_questions <=> hit = 0
             /\ \A id \in Ids \ {q.id} :
                  /\ id \in pn.questions_attempted
                       <=> id \in p.questions_attempted
                  /\ id \in pn.correct_questions <=> id \in p.correct_questions
                  /\ id \in pn.incorrect_questions
                       <=> id \in p.incorrect_questions
             /\ pn.marked_questions = p.marked_questions
             /\ Count(pn.performance_by_system, q.system, "total")
                  = Count(p.performance_by_system, q.system, "total") + 1
             /\ Count(pn.performance_by_subject, q.subject, "total")
                  = Count(p.performance_by_subject, q.subject, "total") + 1
             /\ Count(pn.performance_by_system, q.system, "correct")
                  = Count(p.performance_by_system, q.system, "correct") + hit
             /\ Count(pn.performance_by_subject, q.subject, "correct")
                  = Count(p.performance_by_subject, q.subject, "correct") + hit
             /\ DOMAIN pn.performance_by_system
                  = DOMAIN p.performance_by_system \cup {q.system}
             /\ DOMAIN pn.performance_by_subject
                  = DOMAIN p.performance_by_subject \cup {q.subject}
             /\ \A c \in DOMAIN p.performance_by_system \ {q.system} :
                  pn.performance_by_system[c] = p.performance_by_system[c]
             /\ \A c \in DOMAIN p.performance_by_subject \ {q.subject} :
                  pn.performance_by_subject[c] = p.performance_by_subject[c]
             /\ UNCHANGED << quiz_config, users >>
    ]_vars

\* question 1, answered correctly in an earlier session, now answered B: it
\* has moved to the incorrect set, and question 2 and its subject are as
\* they were
C16_Witness ==
  /\ OnQuestion
  /\ CurrentQuestion(quiz_config, quiz_state).id = 1
  /\ quiz_state.answered
  /\ quiz_state.selected = "B"
  /\ Attempted = {1, 2}
  /\ Incorrect = {1}
  /\ Correct = {2}
  /\ BySubject["Anatomy"] = [correct |-> 1, total |-> 2]
  /\ BySubject["Physio"] = [correct |-> 1, total |-> 1]
  /\ BySystem["Cardio"] = [correct |-> 2, total |-> 3]


\* what a jump to the index target does: the index is the target, answered
\* is false and no option is selected; score, marks, configuration and
\* progress are as before
JumpEffect(target) ==
  /\ quiz_state' = [quiz_state EXCEPT !.idx = target, !.answered = FALSE,
                                      !.selected = NoSelection]
  /\ UNCHANGED << quiz_config, user_progress, users, session_answered >>
  /\ screen' = QuestionScreen(quiz_state')

\* the indices from one below the first to one above the last question
JumpTargets == -1 .. QuizLen(quiz_config)

\* C17 as stated: on the question page, a jump is possible to every index
\* from 0 to N - 1 and to no other, and has the effect of JumpEffect.
C17_JumpToEveryTarget ==
  [][ /\ ("jump" \in screen /\ OnQuestion) =>
           \A target \in JumpTargets :
             ENABLED Jump(target + 1)
               <=> target \in 0 .. QuizLen(quiz_config) - 1
      /\ \A target \in JumpTargets : Jump(target + 1) => JumpEffect(target)
    ]_vars

\* C17, amended: on the question page, a jump is possible to every index from
\* 0 to N - 1 other than the current one and to no other, and has the effect
\* of JumpEffect; the box offers the current question too, and picking it is
\* no jump: answered and the selected option stay.
C17_JumpToOtherTargets ==
  [][ /\ ("jump" \in screen /\ OnQuestion) =>
           \A target \in JumpTargets :
             ENABLED Jump(target + 1)
               <=> /\ target \in 0 .. QuizLen(quiz_config) - 1
                   /\ target # quiz_state.idx
      /\ \A target \in JumpTargets : Jump(target + 1) => JumpEffect(target)
    ]_vars

\* the second question reached with no question answered: by a jump
C17_Witness ==
  /\ OnQuestion
  /\ quiz_state.idx = 1
  /\ ~quiz_state.answered
  /\ quiz_state.selected = NoSelection
  /\ session_answered = {}
  /\ NumAnswers = 0
  /\ "jump" \in screen


\* C18: the write of a checkpoint of one user leaves the stored record of
\* every other user as it was, however the loads and writes of the
\* checkpoints of different users interleave.
C18_OtherRecordsKept ==
  [][ \A u \in Users :
        SaveWrite(u) => \A v \in Users \ {u} : users'[v] = users[v]
    ]_vars


\* the widgets that show or use the current question
QuestionWidgets == {"mark", "prev", "next", "end", "jump"} \cup Range(OptNames)

\* C19: in a started session the index is from 0 to the number of questions;
\* the page shows a question only at an index below that number, and at that
\* number it shows the results.
C19_IndexInRange ==
  quiz_config.quiz_started =>
    /\ quiz_state.idx \in 0 .. QuizLen(quiz_config)
    /\ screen \cap QuestionWidgets # {}
         => quiz_state.idx + 1 \in DOMAIN quiz_config.current_quiz
    /\ quiz_state.idx = QuizLen(quiz_config)
         => results.shown /\ screen = ResultsButtons

\* the index at its upper end: the results after the last question
C19_Witness ==
  /\ quiz_config.quiz_started
  /\ QuizLen(quiz_config) = 2
  /\ quiz_state.idx = QuizLen(quiz_config)
  /\ screen = ResultsButtons
  /\ results.total = 2

\* the index at its lower end with Previous on the page, after a move back
C19_WitnessFirst ==
  /\ quiz_config.quiz_started
  /\ QuizLen(quiz_config) = 2
  /\ quiz_state.idx = 0
  /\ "prev" \in screen
  /\ session_answered = {quiz_config.current_quiz[2].id}


\* the attempted ids are the correct and the incorrect ones, none is both,
\* and the question on the page, once answered, is in the set its letter
\* decides
OutcomeSets(p, cfg, qs) ==
  /\ p.questions_attempted = p.correct_questions \cup p.incorrect_questions
  /\ p.correct_questions \cap p.incorrect_questions = {}
  /\ (cfg.quiz_started /\ qs.answered /\ qs.idx < QuizLen(cfg)) =>
       LET q == CurrentQuestion(cfg, qs)
       IN IF qs.selected = q.answer
          THEN q.id \in p.correct_questions
          ELSE q.id \in p.incorrect_questions

\* C20: from the empty progress of a new account, the attempted ids are
\* always the union of the correct and the incorrect ones and each is in
\* exactly one of the two; an id enters or changes its set only by an answer
\* to its question, which puts it into the set that answer decides.
C20_OutcomeOfLastAnswer ==
  [][ /\ OutcomeSets(user_progress, quiz_config, quiz_state)
      /\ OutcomeSets(user_progress', quiz_config', quiz_state')
      /\ \A id \in Ids :
           ( \/ (id \in Correct) # (id \in user_progress'.correct_questions)
             \/ (id \in Incorrect) # (id \in user_progress'.incorrect_questions)
             \/ (id \in Attempted) # (id \in user_progress'.questions_attempted) )
           => /\ quiz_state'.answered
              /\ ~quiz_state.answered
              /\ UNCHANGED quiz_config
              /\ CurrentQuestion(quiz_config, quiz_state).id = id
    ]_vars

\* in one session question 1 answered A, question 2 answered B, then back
\* and question 1 answered B: it is incorrect and no longer correct
C20_Witness ==
  /\ n_sessions = 1
  /\ OnQuestion
  /\ quiz_state.idx = 0
  /\ quiz_state.answered
  /\ quiz_state.selected = "B"
  /\ quiz_state.score = 2
  /\ Attempted = {1, 2}
  /\ Correct = {2}
  /\ Incorrect = {1}


\* C21: no operation changes the marked ids of the progress: the marks of a
\* session stay in the quiz state and reach neither the progress in memory
\* nor the record a checkpoint stores; from the empty progress of a new
\* account both stay empty, so that a Start Quiz with the filter "marked"
\* reports that no question matches and no session of that filter exists.
C21_MarksStayInSession ==
  [][ /\ user_progress'.marked_questions = user_progress.marked_questions
      /\ user_progress'.marked_questions = {}
      /\ \A u \in DOMAIN users' : users'[u].marked_questions = << >>
      /\ "start" \in screen =>
           \A num_q \in NumQChoices(Len(questions)),
              systems \in SystemChoices, subjects \in SubjectChoices :
             StartQuiz(num_q, systems, subjects, "marked")
               => /\ notice' = "No questions match your criteria"
                  /\ UNCHANGED << quiz_config, quiz_state >>
      /\ quiz_config'.quiz_started => quiz_config'.question_filter # "marked"
    ]_vars

\* question 1 was marked and answered wrongly in a session, the checkpoint
\* of Home has stored the progress, and a Start Quiz has found no match:
\* the stored record has the incorrect id and no marked one
C21_Witness ==
  /\ ~quiz_config.quiz_started
  /\ notice = "No questions match your criteria"
  /\ quiz_state.marked = {1}
  /\ Incorrect = {1}
  /\ InSync
  /\ users[username].incorrect_questions = << 1 >>
  /\ users[username].marked_questions = << >>
  /\ user_progress.marked_questions = {}

====
